---- MODULE Spec2Model ----
(***************************************************************************)
(* Model of bambucuts/webui/app.py: the two conversion handlers            *)
(* convert_to_gcode and create_3mf, the temporary directory each one       *)
(* creates, the collaborators they call and the cleanup they run.          *)
(*                                                                         *)
(* Strings are sequences of tokens: a token is an atomic piece of text     *)
(* ("a", ".dxf", "/", "..").  No token of the model contains a path        *)
(* separator or one of the substrings the code searches for unless it is   *)
(* that substring, so str.replace, str.endswith and path resolution can    *)
(* be computed token by token.  The empty sequence is the empty string,    *)
(* and stands for None where the code tests a path for truth.              *)
(*                                                                         *)
(* The handlers validate_gcode and format_gcode are functions of the text  *)
(* sent to them; there a text is the sequence of its characters.  TextSpec *)
(* is a client that types a text, has it validated and formatted, and      *)
(* sends the formatted text again.                                         *)
(***************************************************************************)
EXTENDS Naturals, Sequences, FiniteSets, TLC

\* ------------------------------------------------------------------ bounds

\* Number of injected environment faults (a collaborator raising, a failed
\* write, a failed os.remove) in one run.  Failures the code brings about
\* itself (a path that names a directory, a missing file) are not counted.
MaxFaults == 1

\* Two requests, each served by its own thread.  The handlers share nothing
\* but the file system, so two are enough to show every way one request can
\* meet another there.
Requests == {1, 2}

\* ------------------------------------------------------------------ strings

SEP == "/"
UP == ".."
NoPath == <<>>

RECURSIVE Replace(_, _, _)
\* str.replace(old, new) for a one-token old and new.
Replace(s, old, new) ==
    IF s = <<>> THEN <<>>
    ELSE <<IF Head(s) = old THEN new ELSE Head(s)>> \o Replace(Tail(s), old, new)

\* str.endswith(suffix) for a one-token suffix.
EndsWith(s, suffix) == Len(s) > 0 /\ s[Len(s)] = suffix

\* Characters that str.strip("._") removes, as tokens.
StripTokens == {UP, ".", "_"}

RECURSIVE LStrip(_)
LStrip(s) ==
    IF s # <<>> /\ Head(s) \in StripTokens THEN LStrip(Tail(s)) ELSE s

RECURSIVE RStrip(_)
RStrip(s) ==
    IF s # <<>> /\ s[Len(s)] \in StripTokens
    THEN RStrip(SubSeq(s, 1, Len(s) - 1))
    ELSE s

\* werkzeug.utils.secure_filename: every path separator becomes "_", then
\* leading and trailing dots and underscores are stripped.
secure_filename(name) == RStrip(LStrip(Replace(name, SEP, "_")))

\* os.path.join(a, b)
PathJoin(a, b) ==
    IF b # <<>> /\ Head(b) = SEP THEN b
    ELSE IF a = <<>> \/ EndsWith(a, SEP) THEN a \o b
    ELSE a \o <<SEP>> \o b

RECURSIVE Components(_, _, _)
\* The components of path p, resolved as the kernel resolves them: "/"
\* separates, an empty component and "." are skipped, ".." drops the last
\* component.  acc is the resolved prefix, cur the component being read.
Components(p, acc, cur) ==
    LET push == IF cur = <<>> \/ cur = <<".">> THEN acc
                ELSE IF cur = <<UP>>
                     THEN (IF acc = <<>> THEN acc ELSE SubSeq(acc, 1, Len(acc) - 1))
                     ELSE Append(acc, cur)
    IN  IF p = <<>> THEN push
        ELSE IF Head(p) = SEP THEN Components(Tail(p), push, <<>>)
        ELSE Components(Tail(p), acc, Append(cur, Head(p)))

\* The file-system object a path names.
Resolve(p) == Components(p, <<>>, <<>>)

Parent(loc) == IF loc = <<>> THEN <<>> ELSE SubSeq(loc, 1, Len(loc) - 1)

\* Whether location loc lies inside directory location d.
Inside(loc, d) == Len(loc) > Len(d) /\ SubSeq(loc, 1, Len(d)) = d

\* ------------------------------------------------------------------ inputs

\* Whitespace that str.strip() removes, as tokens.
Whitespace == {" ", "\n"}

RECURSIVE StripWs(_)
\* str.strip()
StripWs(s) ==
    IF s # <<>> /\ Head(s) \in Whitespace THEN StripWs(Tail(s))
    ELSE IF s # <<>> /\ s[Len(s)] \in Whitespace
         THEN StripWs(SubSeq(s, 1, Len(s) - 1))
         ELSE s

\* Names tempfile.mkdtemp() may give a directory, all under /tmp.
DirNames == {"w1", "w2"}
TmpDir == <<SEP, "tmp">>

\* The multipart requests sent to /api/convert-to-gcode: the uploaded file's
\* name (request.files['file'].filename) and request.form['file_type'].
ConvertInputs ==
    { [has_file |-> TRUE, filename |-> <<"a", ".svg">>, file_type |-> "svg"],
      [has_file |-> TRUE, filename |-> <<"a", ".dxf">>, file_type |-> "dxf"],
      [has_file |-> TRUE, filename |-> <<"a", ".svg">>, file_type |-> "dxf"],
      [has_file |-> TRUE, filename |-> <<"output", ".gcode">>, file_type |-> "svg"],
      [has_file |-> TRUE, filename |-> <<UP>>, file_type |-> "svg"],
      [has_file |-> FALSE, filename |-> <<>>, file_type |-> "svg"],
      [has_file |-> TRUE, filename |-> <<>>, file_type |-> "svg"],
      [has_file |-> TRUE, filename |-> <<"a", ".svg">>, file_type |-> "png"] }

\* Download names sent to /api/gcode/create-3mf (data['filename']).
ArchiveNames ==
    { <<"plot", ".gcode">>, <<"plot">>,
      <<UP, SEP, "evil", ".gcode">>,
      <<UP, SEP, "w1", SEP, "plot", ".gcode">> }

\* The JSON bodies sent to /api/gcode/create-3mf.
Create3mfInputs ==
    { [gcode |-> <<"G1">>, filename |-> f] : f \in ArchiveNames }
    \cup { [gcode |-> <<>>, filename |-> <<"plot", ".gcode">>],
           [gcode |-> <<" ", "\n">>, filename |-> <<"plot", ".gcode">>] }

\* Messages of the exceptions a collaborator raises.
CauseMessages == {"ConversionError"}

\* ------------------------------------------------------------------ state

VARIABLES
    pc,               \* where each request's handler stands
    frame,            \* each handler's local variables
    result,           \* the response each handler returned
    obs,              \* what each request did, as its environment saw it
    dirs,             \* the directories mkdtemp created that exist
    files,            \* the files that exist
    faults,           \* environment faults injected so far
    template_exists,  \* whether template.3mf is installed
    editor,           \* the G-code text a client holds and sends as 'gcode'
    keystrokes,       \* characters the client typed into it
    formats,          \* format_gcode responses the client took over as its text
    unformatted,      \* the text sent with the last of those requests
    report,           \* validate_gcode's response for the text the client holds
    unformatted_report \* the response it held for the text before formatting

\* What the endpoints of the G-code panel (validate, format) work on.
text_vars == <<editor, keystrokes, formats, unformatted, report, unformatted_report>>

vars == <<pc, frame, result, obs, dirs, files, faults, template_exists, text_vars>>

NoResult == [status |-> 0]

\* jsonify({'success': False, 'error': ...}), code
Failure(msg, code) == [status |-> code, success |-> FALSE, error |-> msg]

NoFrame ==
    [ handler |-> "none", has_file |-> FALSE, upload_name |-> <<>>,
      file_type |-> "", gcode_text |-> <<>>, filename |-> <<>>,
      temp_dir |-> NoPath, temp_input_path |-> NoPath,
      temp_svg_path |-> NoPath, temp_gcode_path |-> NoPath,
      temp_3mf_path |-> NoPath, svg_file_path |-> NoPath,
      output_3mf_name |-> <<>>, e |-> "", cleanup_error |-> "",
      listing |-> {} ]

NoObs ==
    [ calls |-> <<>>,          \* collaborator invocations, in order
      stage_paths |-> {},      \* paths handed to a stage to read or write
      fs_changes |-> {},       \* locations created, overwritten or removed
      failed_stage |-> "none", \* the first stage of the try block that failed
      owns |-> FALSE,          \* it created a directory and has not removed it
      releases |-> 0,          \* times the cleanup code was entered
      cleanup_errors |-> 0,    \* removals of the cleanup that raised
      cleanup_faults |-> 0,    \* of those, the ones the environment injected
      attempted |-> {},        \* <<call, location>> the cleanup tried
      trespass |-> {} ]        \* changes made inside another live request's directory

\* ------------------------------------------------------------------ file system

RootDirs == { <<>>, Resolve(TmpDir) }

IsDir(loc) == loc \in dirs \cup RootDirs

\* os.path.exists(p)
Exists(p) == Resolve(p) \in files \/ IsDir(Resolve(p))

\* Whether open(p, 'w') can create or truncate the file p names.
Writable(p) ==
    /\ p # <<>>
    /\ ~EndsWith(p, SEP)
    /\ ~IsDir(Resolve(p))
    /\ IsDir(Parent(Resolve(p)))

\* Whether os.remove(p) can unlink what p names.
Removable(p) == Resolve(p) \in files

\* The files of directory location d (os.listdir).
ListDir(d) == { f \in files : Parent(f) = d }

CanFault == faults < MaxFaults

\* ------------------------------------------------------------------ convert_to_gcode

\* The input checks of convert_to_gcode: the message of the 400 response, or
\* "" when the request is accepted.
ConvertRejection(in) ==
    IF ~in.has_file THEN "No file provided"
    ELSE IF in.filename = <<>> THEN "Empty filename"
    ELSE IF in.file_type \notin {"svg", "dxf"}
         THEN "Invalid file type. Only SVG and DXF are supported"
    ELSE ""

\* tempfile.mkdtemp(): the paths it may return, each a directory that does
\* not exist yet.
mkdtemp == { p \in { PathJoin(TmpDir, <<n>>) : n \in DirNames } : ~Exists(p) }

\* ExceptResponse with the cause dropped from the response.
ExceptResponseGeneric(e) == Failure("Internal server error", 500)

\* What the handler returns for the exception e caught at its except clause.
ExceptResponse(e) == Failure(e, 500)

\* AfterCleanupError with the cleanup's exception returned to the caller.
CleanupErrorReturned(response, cleanup_error) == Failure(cleanup_error, 500)

\* What a handler's response is after the cleanup caught cleanup_error:
\* the error is printed, the response stays.
AfterCleanupError(response, cleanup_error) == response

\* CG_Raise with a failed exchange->drawing stage not ending the pipeline.
CG_RaiseProceeds(r, stage, msg, fr, ob) ==
    /\ frame' = [frame EXCEPT ![r] = [fr EXCEPT !.e = msg]]
    /\ obs' = [obs EXCEPT ![r] = [ob EXCEPT !.failed_stage = IF @ = "none" THEN stage ELSE @]]
    /\ result' = [result EXCEPT ![r] = ExceptResponse(msg)]
    /\ pc' = [pc EXCEPT ![r] = IF stage = "drawing" THEN "cg_generate" ELSE "cg_finally"]

\* An exception raised in the try block of convert_to_gcode: the except
\* clause builds the response, then the finally clause runs.
CG_Raise(r, stage, msg, fr, ob) ==
    /\ frame' = [frame EXCEPT ![r] = [fr EXCEPT !.e = msg]]
    /\ obs' = [obs EXCEPT ![r] = [ob EXCEPT !.failed_stage = IF @ = "none" THEN stage ELSE @]]
    /\ result' = [result EXCEPT ![r] = ExceptResponse(msg)]
    /\ pc' = [pc EXCEPT ![r] = "cg_finally"]

CG_Validate(r) ==
    /\ pc[r] = "idle"
    /\ \E in \in ConvertInputs :
        /\ frame' = [frame EXCEPT ![r] =
               [NoFrame EXCEPT !.handler = "convert_to_gcode",
                               !.has_file = in.has_file,
                               !.upload_name = in.filename,
                               !.file_type = in.file_type]]
        /\ IF ConvertRejection(in) # ""
           THEN /\ result' = [result EXCEPT ![r] = Failure(ConvertRejection(in), 400)]
                /\ pc' = [pc EXCEPT ![r] = "done"]
           ELSE /\ pc' = [pc EXCEPT ![r] = "cg_mkdtemp"]
                /\ UNCHANGED result
    /\ UNCHANGED <<obs, dirs, files, faults, template_exists, text_vars>>

CG_Mkdtemp(r) ==
    /\ pc[r] = "cg_mkdtemp"
    /\ \E d \in mkdtemp :
        /\ dirs' = dirs \cup {Resolve(d)}
        /\ frame' = [frame EXCEPT ![r].temp_dir = d]
    /\ obs' = [obs EXCEPT ![r].owns = TRUE]
    /\ pc' = [pc EXCEPT ![r] = "cg_save"]
    /\ UNCHANGED <<result, files, faults, template_exists, text_vars>>

\* The ways a write of path out can end, for a step that needs the files
\* needs to exist: it returns having written out (ok), or raises msg, out
\* perhaps left half written (wrote).  fault marks an injected fault.
WriteOutcomes(needs, out, missing, msgs) ==
    IF ~Writable(out)
    THEN {[ok |-> FALSE, wrote |-> FALSE, fault |-> FALSE,
           msg |-> IF IsDir(Parent(Resolve(out))) THEN "IsADirectoryError"
                   ELSE "FileNotFoundError"]}
    ELSE IF \E p \in needs : Resolve(p) \notin files
    THEN {[ok |-> FALSE, msg |-> missing, wrote |-> FALSE, fault |-> FALSE]}
    ELSE {[ok |-> TRUE, msg |-> "", wrote |-> TRUE, fault |-> FALSE]}
         \cup { [ok |-> FALSE, msg |-> m, wrote |-> w, fault |-> TRUE] :
                    m \in (IF CanFault THEN msgs ELSE {}), w \in BOOLEAN }

\* The file system and the fault count after outcome oc of a write of out.
Written(oc, out) ==
    /\ files' = IF oc.wrote THEN files \cup {Resolve(out)} ELSE files
    /\ faults' = IF oc.fault THEN faults + 1 ELSE faults

\* Whether location loc lies in the directory of a request other than r that
\* is being served.
Foreign(r, loc) ==
    \E o \in Requests \ {r} :
        /\ pc[o] # "done"
        /\ obs[o].owns
        /\ Inside(loc, Resolve(frame[o].temp_dir))

\* Request r's record after it created, overwrote or removed the locations locs.
Changed(r, ob, locs) ==
    [ob EXCEPT !.fs_changes = @ \cup locs,
               !.trespass = @ \cup {l \in locs : Foreign(r, l)}]

\* Request r's record after a stage was handed the paths used and ended oc.
StageObs(r, ob, used, oc, out) ==
    Changed(r, [ob EXCEPT !.stage_paths = @ \cup {Resolve(p) : p \in used}],
            IF oc.wrote THEN {Resolve(out)} ELSE {})

\* A request's record after a call of collaborator fn.
CallObs(ob, fn, inp, out) ==
    [ob EXCEPT !.calls = Append(@, [fn |-> fn, input |-> inp, output |-> out])]

\* filename = secure_filename(...); file.save(temp_input_path)
CG_SaveUpload(r) ==
    /\ pc[r] = "cg_save"
    /\ LET filename == secure_filename(frame[r].upload_name)
           path == PathJoin(frame[r].temp_dir, filename)
           fr == [frame[r] EXCEPT !.filename = filename, !.temp_input_path = path]
       IN  \E oc \in WriteOutcomes({}, path, "", {"OSError"}) :
             /\ Written(oc, path)
             /\ IF oc.ok
                THEN /\ frame' = [frame EXCEPT ![r] = fr]
                     /\ obs' = [obs EXCEPT ![r] = StageObs(r, @, {path}, oc, path)]
                     /\ pc' = [pc EXCEPT ![r] = "cg_normalize"]
                     /\ UNCHANGED result
                ELSE CG_Raise(r, "save", oc.msg, fr, StageObs(r, obs[r], {path}, oc, path))
    /\ UNCHANGED <<dirs, template_exists, text_vars>>

\* SvgFilePath with the upload handed on whatever its format.
SvgFilePathUpload(file_type, temp_input_path, temp_svg_path) == temp_input_path

\* svg_file_path: the drawing handed to svg_to_gcode.
SvgFilePath(file_type, temp_input_path, temp_svg_path) ==
    IF file_type = "dxf" THEN temp_svg_path ELSE temp_input_path

\* if file_type == 'dxf': convert_dxf_to_svg(...) else the upload is the drawing
CG_DxfToSvg(r) ==
    /\ pc[r] = "cg_normalize"
    /\ IF frame[r].file_type = "dxf"
       THEN LET inp == frame[r].temp_input_path
                out == PathJoin(frame[r].temp_dir,
                                Replace(frame[r].filename, ".dxf", ".svg"))
                fr == [frame[r] EXCEPT !.temp_svg_path = out]
            IN  \E oc \in WriteOutcomes({inp}, out, "FileNotFoundError", CauseMessages) :
                  LET ob == StageObs(r, CallObs(obs[r], "convert_dxf_to_svg", inp, out),
                                     {inp, out}, oc, out)
                  IN  /\ Written(oc, out)
                      /\ IF oc.ok
                         THEN /\ frame' = [frame EXCEPT ![r] =
                                     [fr EXCEPT !.svg_file_path =
                                         SvgFilePath("dxf", inp, out)]]
                              /\ obs' = [obs EXCEPT ![r] = ob]
                              /\ pc' = [pc EXCEPT ![r] = "cg_generate"]
                              /\ UNCHANGED result
                         ELSE CG_Raise(r, "drawing", oc.msg, fr, ob)
       ELSE /\ frame' = [frame EXCEPT ![r].svg_file_path =
                   SvgFilePath(frame[r].file_type, frame[r].temp_input_path,
                               frame[r].temp_svg_path)]
            /\ pc' = [pc EXCEPT ![r] = "cg_generate"]
            /\ UNCHANGED <<result, obs, files, faults>>
    /\ UNCHANGED <<dirs, template_exists, text_vars>>

\* gcode_tools.svg_to_gcode(svg_file_path, temp_gcode_path)
CG_SvgToGcode(r) ==
    /\ pc[r] = "cg_generate"
    /\ LET inp == frame[r].svg_file_path
           out == PathJoin(frame[r].temp_dir, <<"output", ".gcode">>)
           fr == [frame[r] EXCEPT !.temp_gcode_path = out]
       IN  \E oc \in WriteOutcomes({inp}, out, "FileNotFoundError", CauseMessages) :
             LET ob == StageObs(r, CallObs(obs[r], "svg_to_gcode", inp, out),
                                {inp, out}, oc, out)
             IN  /\ Written(oc, out)
                 /\ IF oc.ok
                    THEN /\ frame' = [frame EXCEPT ![r] = fr]
                         /\ obs' = [obs EXCEPT ![r] = ob]
                         /\ pc' = [pc EXCEPT ![r] = "cg_read"]
                         /\ UNCHANGED result
                    ELSE CG_Raise(r, "instructions", oc.msg, fr, ob)
    /\ UNCHANGED <<dirs, template_exists, text_vars>>

\* with open(temp_gcode_path) ...; return jsonify({'success': True, ...})
CG_ReadGcode(r) ==
    /\ pc[r] = "cg_read"
    /\ LET path == frame[r].temp_gcode_path
           ob == [obs[r] EXCEPT !.stage_paths = @ \cup {Resolve(path)}]
       IN  IF Resolve(path) \in files
           THEN /\ result' = [result EXCEPT ![r] =
                       [status |-> 200, success |-> TRUE,
                        gcode |-> Resolve(path),
                        original_filename |-> frame[r].filename]]
                /\ obs' = [obs EXCEPT ![r] = ob]
                /\ pc' = [pc EXCEPT ![r] = "cg_finally"]
                /\ UNCHANGED frame
           ELSE CG_Raise(r, "read", "FileNotFoundError", frame[r], ob)
    /\ UNCHANGED <<dirs, files, faults, template_exists, text_vars>>

\* ------------------------------------------------------------------ cleanup

\* The ways `if path and os.path.exists(path): os.remove(path)` can end:
\* the condition is false (skip), the file is removed, os.remove raises
\* because path names a directory (error), or an injected fault makes it
\* raise (fault).
RemoveOutcomes(path) ==
    IF path = NoPath \/ ~Exists(path) THEN {"skip"}
    ELSE IF ~Removable(path) THEN {"error"}
    ELSE {"removed"} \cup (IF CanFault THEN {"fault"} ELSE {})

\* The ways `if os.path.exists(d): os.rmdir(d)` can end.
RmdirOutcomes(d) ==
    IF d = NoPath \/ ~Exists(d) THEN {"skip"}
    ELSE IF Resolve(d) \notin dirs \/ ListDir(Resolve(d)) # {} THEN {"error"}
    ELSE {"removed"} \cup (IF CanFault THEN {"fault"} ELSE {})

Raised(oc) == oc \in {"error", "fault"}

\* The message of the exception a failed removal raises.
RemovalError(oc) == IF oc = "error" THEN "OSError" ELSE "PermissionError"

\* Request r's record after `call` (os.remove, os.rmdir) on path, in its
\* cleanup, ended oc.
CleanupObs(r, ob, call, path, oc) ==
    [Changed(r, ob, IF oc = "removed" THEN {Resolve(path)} ELSE {}) EXCEPT
        !.attempted = IF oc = "skip" THEN @ ELSE @ \cup {<<call, Resolve(path)>>},
        !.owns = IF call = "rmdir" /\ oc = "removed" THEN FALSE ELSE @,
        !.cleanup_errors = IF Raised(oc) THEN @ + 1 ELSE @,
        !.cleanup_faults = IF oc = "fault" THEN @ + 1 ELSE @]

\* One guarded os.remove of the finally clause of convert_to_gcode, standing
\* at `here`: on an exception the clause's except prints and the handler
\* ends, otherwise the clause goes on at `next`.
CG_Remove(r, here, path, next, entering) ==
    /\ pc[r] = here
    /\ \E oc \in RemoveOutcomes(path) :
        /\ files' = IF oc = "removed" THEN files \ {Resolve(path)} ELSE files
        /\ faults' = IF oc = "fault" THEN faults + 1 ELSE faults
        /\ obs' = [obs EXCEPT ![r] =
               [CleanupObs(r, @, "remove", path, oc) EXCEPT !.releases = @ + entering]]
        /\ result' = [result EXCEPT ![r] =
               IF Raised(oc) THEN AfterCleanupError(@, RemovalError(oc)) ELSE @]
        /\ pc' = [pc EXCEPT ![r] = IF Raised(oc) THEN "done" ELSE next]
    /\ UNCHANGED <<frame, dirs, template_exists, text_vars>>

CG_RemoveInput(r) ==
    CG_Remove(r, "cg_finally", frame[r].temp_input_path, "cg_remove_svg", 1)

CG_RemoveSvg(r) ==
    CG_Remove(r, "cg_remove_svg", frame[r].temp_svg_path, "cg_remove_gcode", 0)

CG_RemoveGcode(r) ==
    CG_Remove(r, "cg_remove_gcode", frame[r].temp_gcode_path, "cg_listdir", 0)

\* if os.path.exists(temp_dir): for f in os.listdir(temp_dir)
CG_ListDir(r) ==
    /\ pc[r] = "cg_listdir"
    /\ IF Exists(frame[r].temp_dir)
       THEN /\ frame' = [frame EXCEPT ![r].listing = ListDir(Resolve(frame[r].temp_dir))]
            /\ pc' = [pc EXCEPT ![r] = "cg_leftovers"]
       ELSE /\ pc' = [pc EXCEPT ![r] = "done"]
            /\ UNCHANGED frame
    /\ UNCHANGED <<result, obs, dirs, files, faults, template_exists, text_vars>>

\* try: os.remove(os.path.join(temp_dir, f)) except: pass
CG_RemoveLeftover(r) ==
    /\ pc[r] = "cg_leftovers"
    /\ \E f \in frame[r].listing :
        /\ frame' = [frame EXCEPT ![r].listing = @ \ {f}]
        /\ \E removed \in (IF f \in files THEN {TRUE} ELSE {}) \cup
                          (IF CanFault \/ f \notin files THEN {FALSE} ELSE {}) :
            /\ files' = IF removed THEN files \ {f} ELSE files
            /\ faults' = IF ~removed /\ f \in files THEN faults + 1 ELSE faults
            /\ obs' = [obs EXCEPT ![r] =
                   [Changed(r, @, IF removed THEN {f} ELSE {}) EXCEPT
                       !.attempted = @ \cup {<<"remove", f>>},
                       !.cleanup_faults = IF ~removed /\ f \in files THEN @ + 1 ELSE @]]
    /\ UNCHANGED <<pc, result, dirs, template_exists, text_vars>>

\* os.rmdir(temp_dir), after the loop over the leftovers
CG_Rmdir(r) ==
    /\ pc[r] = "cg_leftovers"
    /\ frame[r].listing = {}
    /\ \E oc \in RmdirOutcomes(frame[r].temp_dir) :
        /\ dirs' = IF oc = "removed" THEN dirs \ {Resolve(frame[r].temp_dir)} ELSE dirs
        /\ faults' = IF oc = "fault" THEN faults + 1 ELSE faults
        /\ obs' = [obs EXCEPT ![r] = CleanupObs(r, @, "rmdir", frame[r].temp_dir, oc)]
        /\ result' = [result EXCEPT ![r] =
               IF Raised(oc) THEN AfterCleanupError(@, RemovalError(oc)) ELSE @]
    /\ pc' = [pc EXCEPT ![r] = "done"]
    /\ UNCHANGED <<frame, files, template_exists, text_vars>>

\* ------------------------------------------------------------------ create_3mf

\* Create3mfRejection without the strip(): only the empty text is rejected.
Create3mfRejectionUnstripped(in) ==
    IF in.gcode = <<>> THEN "No G-code to convert" ELSE ""

\* The input check of create_3mf: the message of the 400 response, or "".
Create3mfRejection(in) ==
    IF StripWs(in.gcode) = <<>> THEN "No G-code to convert" ELSE ""

\* filename.replace('.gcode', '.3mf') if filename.endswith('.gcode')
\* else f"{filename}.3mf"
Output3mfName(filename) ==
    IF EndsWith(filename, ".gcode")
    THEN Replace(filename, ".gcode", ".3mf")
    ELSE filename \o <<".3mf">>

\* An exception raised in the try block of create_3mf: the except clause
\* cleans up, then returns the response.
C3_Raise(r, stage, msg, fr, ob) ==
    /\ frame' = [frame EXCEPT ![r] = [fr EXCEPT !.e = msg]]
    /\ obs' = [obs EXCEPT ![r] = [ob EXCEPT !.failed_stage = IF @ = "none" THEN stage ELSE @]]
    /\ pc' = [pc EXCEPT ![r] = "c3_except"]
    /\ UNCHANGED result

C3_Validate(r) ==
    /\ pc[r] = "idle"
    /\ \E in \in Create3mfInputs :
        /\ frame' = [frame EXCEPT ![r] =
               [NoFrame EXCEPT !.handler = "create_3mf",
                               !.gcode_text = in.gcode,
                               !.filename = in.filename]]
        /\ IF Create3mfRejection(in) # ""
           THEN /\ result' = [result EXCEPT ![r] = Failure(Create3mfRejection(in), 400)]
                /\ pc' = [pc EXCEPT ![r] = "done"]
           ELSE /\ pc' = [pc EXCEPT ![r] = "c3_mkdtemp"]
                /\ UNCHANGED result
    /\ UNCHANGED <<obs, dirs, files, faults, template_exists, text_vars>>

C3_Mkdtemp(r) ==
    /\ pc[r] = "c3_mkdtemp"
    /\ \E d \in mkdtemp :
        /\ dirs' = dirs \cup {Resolve(d)}
        /\ frame' = [frame EXCEPT ![r].temp_dir = d]
    /\ obs' = [obs EXCEPT ![r].owns = TRUE]
    /\ pc' = [pc EXCEPT ![r] = "c3_write"]
    /\ UNCHANGED <<result, files, faults, template_exists, text_vars>>

\* with open(temp_gcode_path, 'w') as f: f.write(gcode_text)
C3_WriteGcode(r) ==
    /\ pc[r] = "c3_write"
    /\ LET path == PathJoin(frame[r].temp_dir, <<"temp_plot", ".gcode">>)
           fr == [frame[r] EXCEPT !.temp_gcode_path = path]
       IN  \E oc \in WriteOutcomes({}, path, "", {"OSError"}) :
             /\ Written(oc, path)
             /\ IF oc.ok
                THEN /\ frame' = [frame EXCEPT ![r] = fr]
                     /\ obs' = [obs EXCEPT ![r] = StageObs(r, @, {path}, oc, path)]
                     /\ pc' = [pc EXCEPT ![r] = "c3_template"]
                     /\ UNCHANGED result
                ELSE C3_Raise(r, "write", oc.msg, fr, StageObs(r, obs[r], {path}, oc, path))
    /\ UNCHANGED <<dirs, template_exists, text_vars>>

\* jsonify({'success': False, 'error': f'Template file not found: ...'}), 500
TemplateNotFound == Failure("Template file not found", 500)

\* C3_CheckTemplate without the check.
C3_CheckTemplateSkipped(r) ==
    /\ pc[r] = "c3_template"
    /\ pc' = [pc EXCEPT ![r] = "c3_package"]
    /\ UNCHANGED <<result, frame, obs, dirs, files, faults, template_exists, text_vars>>

\* if not os.path.exists(template_path): return ..., 500
C3_CheckTemplate(r) ==
    /\ pc[r] = "c3_template"
    /\ IF template_exists
       THEN /\ pc' = [pc EXCEPT ![r] = "c3_package"]
            /\ UNCHANGED result
       ELSE /\ result' = [result EXCEPT ![r] = TemplateNotFound]
            /\ pc' = [pc EXCEPT ![r] = "done"]
    /\ UNCHANGED <<frame, obs, dirs, files, faults, template_exists, text_vars>>

\* process_3mf(template_path, temp_3mf_path, temp_gcode_path, verbose=False)
C3_Process3mf(r) ==
    /\ pc[r] = "c3_package"
    /\ LET name == Output3mfName(frame[r].filename)
           inp == frame[r].temp_gcode_path
           out == PathJoin(frame[r].temp_dir, name)
           fr == [frame[r] EXCEPT !.output_3mf_name = name, !.temp_3mf_path = out]
       IN  \E oc \in WriteOutcomes({inp}, out, "FileNotFoundError", CauseMessages) :
             LET ob == StageObs(r, CallObs(obs[r], "process_3mf", inp, out),
                                {inp, out}, oc, out)
             IN  /\ Written(oc, out)
                 /\ IF oc.ok
                    THEN /\ frame' = [frame EXCEPT ![r] = fr]
                         /\ obs' = [obs EXCEPT ![r] = ob]
                         /\ pc' = [pc EXCEPT ![r] = "c3_send"]
                         /\ UNCHANGED result
                    ELSE C3_Raise(r, "package", oc.msg, fr, ob)
    /\ UNCHANGED <<dirs, template_exists, text_vars>>

\* return send_file(temp_3mf_path, as_attachment=True, download_name=...)
C3_SendFile(r) ==
    /\ pc[r] = "c3_send"
    /\ LET path == frame[r].temp_3mf_path
           ob == [obs[r] EXCEPT !.stage_paths = @ \cup {Resolve(path)}]
       IN  IF Resolve(path) \in files
           THEN /\ result' = [result EXCEPT ![r] =
                       [status |-> 200, file |-> Resolve(path),
                        download_name |-> frame[r].output_3mf_name]]
                /\ obs' = [obs EXCEPT ![r] = ob]
                /\ pc' = [pc EXCEPT ![r] = "done"]
                /\ UNCHANGED frame
           ELSE C3_Raise(r, "send", "FileNotFoundError", frame[r], ob)
    /\ UNCHANGED <<dirs, files, faults, template_exists, text_vars>>

\* One guarded os.remove of the except clause of create_3mf: on an exception
\* the inner except prints cleanup_error and the handler goes on to return.
C3_Remove(r, here, path, next, entering) ==
    /\ pc[r] = here
    /\ \E oc \in RemoveOutcomes(path) :
        /\ files' = IF oc = "removed" THEN files \ {Resolve(path)} ELSE files
        /\ faults' = IF oc = "fault" THEN faults + 1 ELSE faults
        /\ obs' = [obs EXCEPT ![r] =
               [CleanupObs(r, @, "remove", path, oc) EXCEPT !.releases = @ + entering]]
        /\ frame' = [frame EXCEPT ![r].cleanup_error =
               IF Raised(oc) THEN RemovalError(oc) ELSE @]
        /\ pc' = [pc EXCEPT ![r] = IF Raised(oc) THEN "c3_return" ELSE next]
    /\ UNCHANGED <<result, dirs, template_exists, text_vars>>

C3_RemoveGcode(r) ==
    C3_Remove(r, "c3_except", frame[r].temp_gcode_path, "c3_remove_3mf", 1)

C3_Remove3mf(r) ==
    C3_Remove(r, "c3_remove_3mf", frame[r].temp_3mf_path, "c3_rmdir", 0)

\* if os.path.exists(temp_dir): os.rmdir(temp_dir)
C3_Rmdir(r) ==
    /\ pc[r] = "c3_rmdir"
    /\ \E oc \in RmdirOutcomes(frame[r].temp_dir) :
        /\ dirs' = IF oc = "removed" THEN dirs \ {Resolve(frame[r].temp_dir)} ELSE dirs
        /\ faults' = IF oc = "fault" THEN faults + 1 ELSE faults
        /\ obs' = [obs EXCEPT ![r] = CleanupObs(r, @, "rmdir", frame[r].temp_dir, oc)]
        /\ frame' = [frame EXCEPT ![r].cleanup_error =
               IF Raised(oc) THEN RemovalError(oc) ELSE @]
    /\ pc' = [pc EXCEPT ![r] = "c3_return"]
    /\ UNCHANGED <<result, files, template_exists, text_vars>>

\* return jsonify({'success': False, 'error': str(e)}), 500
C3_ReturnError(r) ==
    /\ pc[r] = "c3_return"
    /\ result' = [result EXCEPT ![r] =
           IF frame[r].cleanup_error # ""
           THEN AfterCleanupError(ExceptResponse(frame[r].e), frame[r].cleanup_error)
           ELSE ExceptResponse(frame[r].e)]
    /\ pc' = [pc EXCEPT ![r] = "done"]
    /\ UNCHANGED <<frame, obs, dirs, files, faults, template_exists, text_vars>>

\* ------------------------------------------------------------------ specification

\* ------------------------------------------------------------------ G-code text

\* A text is the sequence of its characters.
MARK == ";"
NL == "\n"

LowerCase ==
    << "a", "b", "c", "d", "e", "f", "g", "h", "i", "j", "k", "l", "m",
       "n", "o", "p", "q", "r", "s", "t", "u", "v", "w", "x", "y", "z" >>
UpperCase ==
    << "A", "B", "C", "D", "E", "F", "G", "H", "I", "J", "K", "L", "M",
       "N", "O", "P", "Q", "R", "S", "T", "U", "V", "W", "X", "Y", "Z" >>

\* str.upper() of one character
Upper(c) ==
    IF \E i \in DOMAIN LowerCase : LowerCase[i] = c
    THEN UpperCase[CHOOSE i \in DOMAIN LowerCase : LowerCase[i] = c]
    ELSE c

\* IsDigit that takes '0' for no digit.
IsNonZeroDigit(c) == c \in {"1", "2", "3", "4", "5", "6", "7", "8", "9"}

\* str.isdigit() of one character
IsDigit(c) == c \in {"0", "1", "2", "3", "4", "5", "6", "7", "8", "9"}

\* sep in s
Contains(s, sep) == \E i \in DOMAIN s : s[i] = sep

\* s.split(sep): the pieces of s between the occurrences of sep, at least one.
Split(s, sep) ==
    LET at == { i \in DOMAIN s : s[i] = sep }
        \* where piece k starts and ends: after the (k-1)th sep, before the kth
        nth(k) == IF k = 0 THEN 0
                  ELSE IF k > Cardinality(at) THEN Len(s) + 1
                  ELSE CHOOSE i \in at : Cardinality({ j \in at : j < i }) = k - 1
    IN  [ k \in 1..(Cardinality(at) + 1) |-> SubSeq(s, nth(k - 1) + 1, nth(k) - 1) ]

RECURSIVE Join(_, _)
\* sep.join(pieces)
Join(pieces, sep) ==
    IF pieces = <<>> THEN <<>>
    ELSE IF Len(pieces) = 1 THEN pieces[1]
    ELSE pieces[1] \o <<sep>> \o Join(Tail(pieces), sep)

\* Skipped with only blank lines skipped.
SkippedBlankOnly(line) == line = <<>>

\* 'not line or line.startswith(';')' of a stripped line: blank lines and
\* full-line comments are not inspected.
Skipped(line) == line = <<>> \/ Head(line) = MARK

\* ------------------------------------------------------------------ validate_gcode

Prefixes == {"G", "M", "T", "N"}

\* The errors validate_gcode appends: line_num and arg are what the f-string
\* puts into message (arg is "" when it takes none).
InvalidStart(line_num, c) ==
    [line_num |-> line_num, message |-> "Invalid command start", arg |-> c]
MissingNumber(line_num) ==
    [line_num |-> line_num, message |-> "Missing command number", arg |-> ""]

\* 'if ';' in line: line = line.split(';')[0].strip()'
WithoutComment(line) ==
    IF Contains(line, MARK) THEN StripWs(Split(line, MARK)[1]) ELSE line

\* NeedsNumber with T taken for a prefix that expects a number as well.
NeedsNumberAlsoT(line) == Upper(line[1]) \in {"G", "M", "T"}

\* line.upper().startswith('G') or line.upper().startswith('M')
NeedsNumber(line) == Upper(line[1]) \in {"G", "M"}

\* One turn of the loop of validate_gcode on the line numbered line_num: the
\* errors it appends, or raised when line[0] is read of an empty line
\* (IndexError).
CheckLine(line_num, text) ==
    LET stripped == StripWs(text)
        line == WithoutComment(stripped)
    IN  IF Skipped(stripped) THEN [raised |-> FALSE, errors |-> <<>>]
        ELSE IF line = <<>> THEN [raised |-> TRUE, errors |-> <<>>]
        ELSE IF Upper(line[1]) \notin Prefixes
             THEN [raised |-> FALSE, errors |-> <<InvalidStart(line_num, line[1])>>]
        ELSE IF NeedsNumber(line) /\ (Len(line) < 2 \/ ~IsDigit(line[2]))
             THEN [raised |-> FALSE, errors |-> <<MissingNumber(line_num)>>]
        ELSE [raised |-> FALSE, errors |-> <<>>]

\* Scan that stops at the first line with an error.
RECURSIVE ScanUntilError(_, _, _)
ScanUntilError(lines, line_num, errors) ==
    IF lines = <<>> \/ errors # <<>>
    THEN [raised |-> FALSE, errors |-> errors, line_num |-> line_num]
    ELSE LET oc == CheckLine(line_num + 1, Head(lines))
         IN  IF oc.raised
             THEN [raised |-> TRUE, errors |-> errors, line_num |-> line_num + 1]
             ELSE ScanUntilError(Tail(lines), line_num + 1, errors \o oc.errors)

RECURSIVE Scan(_, _, _)
\* The loop of validate_gcode over the lines left, with line_num lines
\* counted and errors found so far.
Scan(lines, line_num, errors) ==
    IF lines = <<>>
    THEN [raised |-> FALSE, errors |-> errors, line_num |-> line_num]
    ELSE LET oc == CheckLine(line_num + 1, Head(lines))
         IN  IF oc.raised
             THEN [raised |-> TRUE, errors |-> errors, line_num |-> line_num + 1]
             ELSE Scan(Tail(lines), line_num + 1, errors \o oc.errors)

NoReport == [status |-> 0]

\* The response of POST /api/gcode/validate for the text sent as 'gcode';
\* an exception that escapes the handler is answered with status 500.
validate_gcode(gcode_text) ==
    LET scan == Scan(Split(gcode_text, NL), 0, <<>>)
    IN  IF scan.raised
        THEN [status |-> 500, raised |-> "IndexError"]
        ELSE [status |-> 200, valid |-> Len(scan.errors) = 0,
              errors |-> scan.errors, warnings |-> <<>>,
              line_count |-> scan.line_num]

\* ------------------------------------------------------------------ format_gcode

\* The width of '{code_part:<20}'.
ColumnWidth == 20

\* Ljust with the text cut at width.
LjustTruncating(s, width) ==
    IF Len(s) < width THEN s \o [i \in 1..(width - Len(s)) |-> " "]
    ELSE SubSeq(s, 1, width)

\* Ljust without the padding.
LjustUnpadded(s, width) == s

\* '{s:<width}': s followed by spaces up to width characters, whole when it
\* is longer.
Ljust(s, width) ==
    IF Len(s) < width THEN s \o [i \in 1..(width - Len(s)) |-> " "] ELSE s

\* code_part of 'code_part, comment_part = line.split(';', 1)', stripped
CodePart(line) == StripWs(Split(line, MARK)[1])

\* CommentPart without 'comment_part = comment_part.strip()'.
CommentPartUnstripped(line) == Join(Tail(Split(line, MARK)), MARK)

\* comment_part of the same split, stripped
CommentPart(line) == StripWs(Join(Tail(Split(line, MARK)), MARK))

\* One turn of the loop of format_gcode: what it appends to formatted_lines.
FormatLine(text) ==
    LET line == StripWs(text)
    IN  IF Skipped(line) THEN line
        ELSE IF Contains(line, MARK)
             THEN Ljust(CodePart(line), ColumnWidth)
                  \o <<" ", MARK, " ">> \o CommentPart(line)
             ELSE line

\* FormattedLines with blank lines left out of the output.
FormattedLinesSkippingBlank(lines) ==
    SelectSeq([i \in DOMAIN lines |-> FormatLine(lines[i])], LAMBDA l : l # <<>>)

\* formatted_lines after the loop over lines
FormattedLines(lines) == [i \in DOMAIN lines |-> FormatLine(lines[i])]

\* The 'formatted' text of the response of POST /api/gcode/format.
format_gcode(gcode_text) == Join(FormattedLines(Split(gcode_text, NL)), NL)

\* ------------------------------------------------------------------ G-code panel

\* Characters a client types.
MaxKeys == 3

\* Times a client takes the formatted text over and sends it again.
MaxFormats == 2

\* The characters typed: a numbered prefix in both cases, a prefix without
\* number, a character that is no prefix, a digit, a blank, the comment
\* marker and the line end.
Alphabet == {"G", "g", "T", "X", "1", " ", MARK, NL}

\* The scenario text of the validator: three lines, each ended by a newline.
ScenarioText ==
    <<"G", "1", " ", "X", "1", "0", " ", "Y", "1", "0", " ", MARK, " ",
    "m", "o", "v", "e", NL, "G", "0", NL, MARK, "c", "o", "m", "m", "e",
    "n", "t", NL>>

\* A command longer than ColumnWidth with an inline comment that holds a
\* second comment marker.
LongCommandText ==
    <<"G", "1", " ", "X", "1", "0", ".", "0", "0", "0", " ", "Y", "1",
    "0", ".", "0", "0", "0", " ", "F", "9", MARK, "c", "u", "t", MARK,
    "2">>

\* Texts a client starts from: nothing, or one it pasted.
StartTexts == {<<>>, ScenarioText, LongCommandText}

handler_vars == <<pc, frame, result, obs, dirs, files, faults, template_exists>>

\* No client has sent a text yet.
NoSession ==
    /\ keystrokes = 0
    /\ formats = 0
    /\ unformatted = <<>>
    /\ report = NoReport
    /\ unformatted_report = NoReport

\* The client types c at the end of the text it holds.
TypeChar(c) ==
    /\ formats = 0
    /\ keystrokes < MaxKeys
    /\ editor' = Append(editor, c)
    /\ keystrokes' = keystrokes + 1
    /\ report' = NoReport
    /\ UNCHANGED <<formats, unformatted, unformatted_report, handler_vars>>

\* POST /api/gcode/validate with the text the client holds.
ValidateGcode ==
    /\ report = NoReport
    /\ report' = validate_gcode(editor)
    /\ UNCHANGED <<editor, keystrokes, formats, unformatted, unformatted_report,
                   handler_vars>>

\* POST /api/gcode/format with the text the client holds, which the client
\* replaces by the formatted text.
FormatGcode ==
    /\ formats < MaxFormats
    /\ editor' = format_gcode(editor)
    /\ unformatted' = editor
    /\ unformatted_report' = report
    /\ report' = NoReport
    /\ formats' = formats + 1
    /\ UNCHANGED <<keystrokes, handler_vars>>

Init ==
    /\ pc = [r \in Requests |-> "idle"]
    /\ frame = [r \in Requests |-> NoFrame]
    /\ result = [r \in Requests |-> NoResult]
    /\ obs = [r \in Requests |-> NoObs]
    /\ dirs = {}
    /\ files = {}
    /\ faults = 0
    /\ template_exists \in BOOLEAN
    /\ editor = <<>>
    /\ NoSession

Next ==
    \E r \in Requests :
        \/ CG_Validate(r)
        \/ CG_Mkdtemp(r)
        \/ CG_SaveUpload(r)
        \/ CG_DxfToSvg(r)
        \/ CG_SvgToGcode(r)
        \/ CG_ReadGcode(r)
        \/ CG_RemoveInput(r)
        \/ CG_RemoveSvg(r)
        \/ CG_RemoveGcode(r)
        \/ CG_ListDir(r)
        \/ CG_RemoveLeftover(r)
        \/ CG_Rmdir(r)
        \/ C3_Validate(r)
        \/ C3_Mkdtemp(r)
        \/ C3_WriteGcode(r)
        \/ C3_CheckTemplate(r)
        \/ C3_Process3mf(r)
        \/ C3_SendFile(r)
        \/ C3_RemoveGcode(r)
        \/ C3_Remove3mf(r)
        \/ C3_Rmdir(r)
        \/ C3_ReturnError(r)

Spec == Init /\ [][Next]_vars

\* The G-code panel alone: no conversion request is served.
TextInit ==
    /\ pc = [r \in Requests |-> "idle"]
    /\ frame = [r \in Requests |-> NoFrame]
    /\ result = [r \in Requests |-> NoResult]
    /\ obs = [r \in Requests |-> NoObs]
    /\ dirs = {}
    /\ files = {}
    /\ faults = 0
    /\ template_exists = TRUE
    /\ editor \in StartTexts
    /\ NoSession

TextNext ==
    \/ \E c \in Alphabet : TypeChar(c)
    \/ ValidateGcode
    \/ FormatGcode

TextSpec == TextInit /\ [][TextNext]_vars

\* ------------------------------------------------------------------ claims

Done(r) == pc[r] = "done"

\* Whether request r created a temporary directory.
Created(r) == frame[r].temp_dir # NoPath

\* The directory request r created.
Workspace(r) == Resolve(frame[r].temp_dir)

\* Whether nothing but request r's own handler acted on its directory: no
\* injected fault struck its cleanup, no other request was given the same
\* directory name or changed a file in it.
Undisturbed(r) ==
    /\ obs[r].cleanup_faults = 0
    /\ \A o \in Requests \ {r} :
        /\ frame[o].temp_dir # frame[r].temp_dir
        /\ \A l \in obs[o].fs_changes : ~Inside(l, Workspace(r))

\* Whether request r's directory and every file in it are gone.
Released(r) == Workspace(r) \notin dirs /\ ListDir(Workspace(r)) = {}

\* C1: when convert_to_gcode returns, the temporary directory it created and
\* every file in it no longer exist, whatever path the try block took.
C1_TempDirGoneOnReturn ==
    \A r \in Requests :
        (frame[r].handler = "convert_to_gcode" /\ Done(r) /\ Created(r)
            /\ Undisturbed(r))
        => Released(r)

\* C2: create_3mf runs its cleanup exactly once on every exit path (archive
\* returned, template missing, packaging failed, write failed), and leaves
\* neither the directory nor a file in it behind.
C2_ReleasedOnceOnEveryExit ==
    \A r \in Requests :
        (frame[r].handler = "create_3mf" /\ Done(r) /\ Created(r)
            /\ Undisturbed(r))
        => (obs[r].releases = 1 /\ Released(r))

\* C3: when the removal of one known file fails during the cleanup, the
\* cleanup still attempts the removal of every other file of the directory
\* and of the directory itself.
C3_RemovalFailureSkipsNothing ==
    \A r \in Requests :
        (Done(r) /\ obs[r].releases > 0 /\ obs[r].cleanup_faults > 0)
        => /\ <<"rmdir", Workspace(r)>> \in obs[r].attempted
           /\ \A f \in ListDir(Workspace(r)) : <<"remove", f>> \in obs[r].attempted

\* Whether the cleanup of request r raised.
CleanupFailed(r) == obs[r].cleanup_errors > 0

\* The response the try block of request r (and the except clause that caught
\* its exception) produced.
TryOutcome(r) ==
    IF obs[r].failed_stage # "none" THEN Failure(frame[r].e, 500)
    ELSE IF frame[r].handler = "convert_to_gcode"
    THEN [status |-> 200, success |-> TRUE,
          gcode |-> Resolve(frame[r].temp_gcode_path),
          original_filename |-> frame[r].filename]
    ELSE IF frame[r].temp_3mf_path = NoPath THEN TemplateNotFound
    ELSE [status |-> 200, file |-> Resolve(frame[r].temp_3mf_path),
          download_name |-> frame[r].output_3mf_name]

\* C4: the response of convert_to_gcode and of create_3mf is the one the try
\* block produced (success with its payload, or failure with the message of
\* the original cause), whether or not a removal of the cleanup failed.
C4_CleanupNeverChangesResult ==
    \A r \in Requests : (Done(r) /\ Created(r)) => result[r] = TryOutcome(r)

\* A request that succeeded and one that failed, the cleanup of both having
\* raised.
C4_Witness ==
    \E r1, r2 \in Requests :
        /\ Done(r1) /\ CleanupFailed(r1) /\ result[r1].status = 200
        /\ Done(r2) /\ CleanupFailed(r2) /\ obs[r2].failed_stage # "none"

Collaborators == {"convert_dxf_to_svg", "svg_to_gcode", "process_3mf"}

CollaboratorStages == {"drawing", "instructions", "package"}

\* The collaborator a stage invokes.
StageCollaborator(stage) ==
    CASE stage = "drawing" -> "convert_dxf_to_svg"
      [] stage = "instructions" -> "svg_to_gcode"
      [] stage = "package" -> "process_3mf"

\* The positions of the invocations of collaborator fn in request r.
CallsOf(r, fn) == { i \in DOMAIN obs[r].calls : obs[r].calls[i].fn = fn }

\* C5: within one request each collaborator is invoked at most once; once an
\* invocation has failed it stays the request's last invocation, and the
\* request ends with a failure response.
C5_NoRetryNoProceed ==
    \A r \in Requests :
        /\ \A fn \in Collaborators : Cardinality(CallsOf(r, fn)) <= 1
        /\ obs[r].failed_stage \in CollaboratorStages =>
            /\ obs[r].calls # <<>>
            /\ obs[r].calls[Len(obs[r].calls)].fn = StageCollaborator(obs[r].failed_stage)
            /\ Done(r) => result[r] = Failure(frame[r].e, 500)

\* A request has ended whose exchange->drawing collaborator failed.
C5_Witness ==
    \E r \in Requests :
        Done(r) /\ obs[r].failed_stage = "drawing" /\ Len(obs[r].calls) = 1

\* C6: an 'svg' request never invokes convert_dxf_to_svg and hands the upload
\* to svg_to_gcode; a 'dxf' request whose upload was saved invokes
\* convert_dxf_to_svg once, before svg_to_gcode, and svg_to_gcode reads the
\* path convert_dxf_to_svg wrote.
C6_SourceFormatRouting ==
    \A r \in Requests :
        LET c == obs[r].calls
            f == frame[r]
        IN  f.handler = "convert_to_gcode" =>
            /\ f.file_type = "svg" =>
                \A i \in DOMAIN c :
                    c[i].fn = "svg_to_gcode" /\ c[i].input = f.temp_input_path
            /\ f.file_type = "dxf" =>
                /\ Cardinality(CallsOf(r, "convert_dxf_to_svg")) <= 1
                /\ \A i \in DOMAIN c : c[i].fn = "svg_to_gcode" =>
                    /\ i = 2
                    /\ c[1].fn = "convert_dxf_to_svg"
                    /\ c[1].input = f.temp_input_path
                    /\ c[i].input = c[1].output
                    /\ Resolve(c[1].output) \in obs[r].fs_changes
                /\ (pc[r] \in {"cg_generate", "cg_read"}
                        \/ obs[r].failed_stage \in {"drawing", "instructions", "read"}
                        \/ (Done(r) /\ result[r].status = 200))
                    => Cardinality(CallsOf(r, "convert_dxf_to_svg")) = 1

\* A 'dxf' request has invoked both collaborators, the drawing written to a
\* path other than the upload's.
C6_Witness ==
    \E r \in Requests :
        /\ frame[r].file_type = "dxf"
        /\ Len(obs[r].calls) = 2
        /\ obs[r].calls[1].output # obs[r].calls[1].input

\* The stage a response names.
StageNamed(response) ==
    IF "stage" \in DOMAIN response THEN response.stage ELSE "none"

C8_TemplateCheckedBeforeAnyWork ==
    \A r \in Requests :
        result[r] = TemplateNotFound =>
            /\ ~Created(r)
            /\ obs[r].fs_changes = {}
            /\ obs[r].calls = <<>>

\* C8 as amended: when the template is absent process_3mf is never invoked
\* and a request that reaches the check ends there with the 'template not
\* found' failure, no stage having failed and no cleanup having run; its
\* directory was created and the instruction file written before the check.
C8_TemplateMissingSkipsPackaging ==
    \A r \in Requests :
        (frame[r].handler = "create_3mf" /\ ~template_exists) =>
            /\ obs[r].calls = <<>>
            /\ pc[r] \notin {"c3_package", "c3_send"}
            /\ (Done(r) /\ Created(r) /\ obs[r].failed_stage = "none") =>
                /\ result[r] = TemplateNotFound
                /\ obs[r].releases = 0
                /\ Resolve(frame[r].temp_gcode_path) \in obs[r].fs_changes

\* A request has ended with the 'template not found' failure.
C8_Witness == \E r \in Requests : Done(r) /\ result[r] = TemplateNotFound

\* Whether request r is being served and owns a directory.
Live(r) == pc[r] # "done" /\ obs[r].owns

\* C9: requests served at the same time own different directories, and no
\* step of one creates, overwrites or removes a path in the directory of
\* another.
C9_WorkspacesIsolated ==
    /\ \A r1, r2 \in Requests :
        (r1 # r2 /\ Live(r1) /\ Live(r2)) => Workspace(r1) # Workspace(r2)
    /\ \A r \in Requests : obs[r].trespass = {}

\* C10: every path a stage of a request reads or writes lies in the
\* directory created for the request.
C10_PathsInsideWorkspace ==
    \A r \in Requests :
        \A l \in obs[r].stage_paths :
            Inside(l, Workspace(r)) \/ l = Workspace(r)

\* ------------------------------------------------------------------ claims on G-code text

\* The lines of a text, as validate_gcode and format_gcode take them.
Lines(text) == Split(text, NL)

\* Whether a line is neither blank nor a full-line comment.
IsCommand(line) == StripWs(line) # <<>> /\ Head(StripWs(line)) # MARK

\* Whether a command line carries an inline comment.
HasInlineComment(line) == IsCommand(line) /\ \E i \in DOMAIN line : line[i] = MARK

\* Where the first comment marker of a line stands.
FirstMark(line) ==
    CHOOSE i \in DOMAIN line : line[i] = MARK /\ \A j \in 1..(i - 1) : line[j] # MARK

\* The command of a command line: what stands before its first comment
\* marker, trimmed.
CommandText(line) ==
    IF HasInlineComment(line)
    THEN StripWs(SubSeq(StripWs(line), 1, FirstMark(StripWs(line)) - 1))
    ELSE StripWs(line)

\* The comment of a commented command line: what follows its first comment
\* marker, trimmed.
CommentText(line) ==
    StripWs(SubSeq(StripWs(line), FirstMark(StripWs(line)) + 1, Len(StripWs(line))))

\* The errors a report holds for line number n.
ErrorsAt(rep, n) == SelectSeq(rep.errors, LAMBDA e : e.line_num = n)

\* Whether the client holds a report for its text, and one for the text it
\* sent to be formatted.
Reported == report # NoReport
BothReported == formats > 0 /\ report # NoReport /\ unformatted_report # NoReport

\* C11: validating the formatted document reports the same errors (line
\* numbers, messages, order) as validating the document itself, and the same
\* validity flag.
C11_FormatKeepsErrors ==
    BothReported =>
        /\ report.status = 200 /\ unformatted_report.status = 200
        /\ report.errors = unformatted_report.errors
        /\ report.valid = unformatted_report.valid

\* A document with errors on two lines that formatting changed was validated
\* before and after.
C11_Witness ==
    /\ BothReported
    /\ editor # unformatted
    /\ Len(unformatted_report.errors) >= 2

\* C12: formatting a formatted document gives it back character for
\* character.
C12_FormatIdempotent == formats >= 2 => editor = unformatted

\* A document was formatted twice that holds a command longer than the
\* column width, a line with several comment markers and a line with an
\* empty inline comment.
C12_Witness ==
    /\ formats >= 2
    /\ \E l \in { Lines(editor)[i] : i \in DOMAIN Lines(editor) } :
        HasInlineComment(l) /\ Len(CommandText(l)) > ColumnWidth
    /\ \E l \in { Lines(editor)[i] : i \in DOMAIN Lines(editor) } :
        HasInlineComment(l) /\ Cardinality({ i \in DOMAIN l : l[i] = MARK }) >= 2
    /\ \E l \in { Lines(editor)[i] : i \in DOMAIN Lines(editor) } :
        HasInlineComment(l) /\ CommentText(l) = <<>>

\* C13: validating "G1 X10 Y10 ; move\nG0\n;comment\n" yields exactly one
\* error, "Line 2: Missing command number", is_valid false and line_count 3.
C13_ScenarioOneError ==
    (Reported /\ editor = ScenarioText) =>
        report = [status |-> 200, valid |-> FALSE,
                  errors |-> <<[line_num |-> 2, message |-> "Missing command number",
                                arg |-> ""]>>,
                  warnings |-> <<>>, line_count |-> 3]

\* C13 as the code has it: validating that text yields no error, is_valid
\* true and line_count 4.
C13_ScenarioNoError ==
    (Reported /\ editor = ScenarioText) =>
        report = [status |-> 200, valid |-> TRUE, errors |-> <<>>,
                  warnings |-> <<>>, line_count |-> 4]

C13_Witness == Reported /\ editor = ScenarioText /\ formats = 0

\* Whether the errors of a report stand in ascending line order.
Ascending(rep) ==
    \A a, b \in DOMAIN rep.errors : a < b => rep.errors[a].line_num < rep.errors[b].line_num

\* C14: every command line whose first character is not in {G, M, T, N}
\* contributes exactly one error, 'Invalid command start' with that character
\* and its line number; later lines are still inspected and the errors stand
\* in ascending line order.
C14_InvalidStartPerLine ==
    Reported =>
        /\ report.status = 200
        /\ Ascending(report)
        /\ \A n \in DOMAIN Lines(editor) :
            LET l == Lines(editor)[n]
            IN  (IsCommand(l) /\ CommandText(l)[1] \notin {"G", "M", "T", "N"})
                => ErrorsAt(report, n) =
                     <<[line_num |-> n, message |-> "Invalid command start",
                        arg |-> CommandText(l)[1]]>>

\* C14 with the first character compared without regard to letter case.
C14_InvalidStartPerLineAnyCase ==
    Reported =>
        /\ report.status = 200
        /\ Ascending(report)
        /\ \A n \in DOMAIN Lines(editor) :
            LET l == Lines(editor)[n]
            IN  (IsCommand(l)
                    /\ CommandText(l)[1] \notin {"G", "M", "T", "N", "g", "m", "t", "n"})
                => ErrorsAt(report, n) =
                     <<[line_num |-> n, message |-> "Invalid command start",
                        arg |-> CommandText(l)[1]]>>

\* Two lines of a validated document start with a character that is no
\* prefix.
C14_Witness ==
    /\ Reported
    /\ \E a, c \in DOMAIN Lines(editor) :
        /\ a < c
        /\ ErrorsAt(report, a) # <<>> /\ ErrorsAt(report, a)[1].message = "Invalid command start"
        /\ ErrorsAt(report, c) # <<>> /\ ErrorsAt(report, c)[1].message = "Invalid command start"

\* The formatted lines that carry an inline comment, with the lines they
\* were formatted from.
CommentedLines ==
    { n \in DOMAIN Lines(editor) : HasInlineComment(Lines(editor)[n]) }

\* C15: in a formatted document the comment marker of every commented
\* command line stands at the same column, right after the command part
\* emitted at exactly the column width.
C15_CommentColumnFixed ==
    formats >= 1 =>
        \A n \in CommentedLines : FirstMark(Lines(editor)[n]) = ColumnWidth + 2

\* C15 as the code has it: the command is padded to the column width when
\* shorter and emitted whole when longer, then a blank, the comment marker, a
\* blank and the trimmed comment follow.
C15_CommentColumnAtLeast ==
    formats >= 1 =>
        \A n \in CommentedLines :
            LET out == Lines(editor)[n]
                in == Lines(unformatted)[n]
                command == CommandText(in)
                width == IF Len(command) > ColumnWidth THEN Len(command) ELSE ColumnWidth
            IN  /\ HasInlineComment(in)
                /\ Len(out) >= width + 3
                /\ SubSeq(out, 1, Len(command)) = command
                /\ \A j \in (Len(command) + 1)..width : out[j] = " "
                /\ SubSeq(out, width + 1, width + 3) = <<" ", MARK, " ">>
                /\ SubSeq(out, width + 4, Len(out)) = CommentText(in)

\* A formatted document holds a commented command shorter than the column
\* width and one longer than it.
C15_Witness ==
    /\ formats = 1
    /\ \E n \in CommentedLines : Len(CommandText(Lines(editor)[n])) < ColumnWidth
    /\ \E n \in CommentedLines : Len(CommandText(Lines(editor)[n])) > ColumnWidth

\* What a line is: blank, a full-line comment or a command.
Kind(line) ==
    IF StripWs(line) = <<>> THEN "blank"
    ELSE IF Head(StripWs(line)) = MARK THEN "comment"
    ELSE "command"

\* C16: the formatted document has as many lines as the document, and its
\* line i comes from line i alone: blank stays blank, a full-line comment
\* stays that comment, a command keeps its command text.
C16_FormatKeepsLines ==
    formats >= 1 =>
        /\ Len(Lines(editor)) = Len(Lines(unformatted))
        /\ \A n \in DOMAIN Lines(unformatted) :
            LET in == Lines(unformatted)[n]
                out == Lines(editor)[n]
            IN  /\ Kind(out) = Kind(in)
                /\ Kind(in) = "blank" => out = <<>>
                /\ Kind(in) = "comment" => out = StripWs(in)
                /\ Kind(in) = "command" => CommandText(out) = CommandText(in)

\* A document with a blank line, a full-line comment, and a command longer
\* than the column width was formatted into another text.
C16_Witness ==
    /\ formats = 1
    /\ editor # unformatted
    /\ \E a, b, c \in DOMAIN Lines(unformatted) :
        /\ a < b /\ b < c
        /\ Kind(Lines(unformatted)[a]) = "command"
        /\ Len(CommandText(Lines(unformatted)[a])) > ColumnWidth
        /\ Kind(Lines(unformatted)[b]) = "blank"
        /\ Kind(Lines(unformatted)[c]) = "comment"

\* C17: validation returns a report for every text and never raises: a line
\* whose first character is inspected is non-empty after trimming and
\* inline-comment removal; is_valid holds exactly when there is no error, and
\* there are no warnings.
C17_ValidateNeverRaises ==
    Reported =>
        /\ report.status = 200
        /\ \A n \in DOMAIN Lines(editor) :
            IsCommand(Lines(editor)[n]) => CommandText(Lines(editor)[n]) # <<>>
        /\ report.valid <=> (report.errors = <<>>)
        /\ report.warnings = <<>>
        /\ report.line_count = Len(Lines(editor))

\* A validated text holds a line of blanks followed by a comment marker and
\* a line that is blank.
C17_Witness ==
    /\ Reported
    /\ \E a, b \in DOMAIN Lines(editor) :
        /\ Lines(editor)[a] # <<>>
        /\ Lines(editor)[a][1] = " "
        /\ Kind(Lines(editor)[a]) = "comment"
        /\ Kind(Lines(editor)[b]) = "blank"

\* Whether line n of the validated text drew the error 'Missing command
\* number'.
MissingNumberAt(n) ==
    \E i \in DOMAIN report.errors :
        report.errors[i] = [line_num |-> n, message |-> "Missing command number", arg |-> ""]

\* C18: a line yields 'Missing command number' if and only if, trimmed and
\* without its inline comment, it starts with G or M in either case and its
\* second character is absent or no digit; no line yields both that error
\* and 'Invalid command start'.
C18_MissingNumberIff ==
    (Reported /\ report.status = 200) =>
        \A n \in DOMAIN Lines(editor) :
            LET l == Lines(editor)[n]
                c == CommandText(l)
            IN  /\ MissingNumberAt(n) <=>
                     /\ IsCommand(l)
                     /\ c[1] \in {"G", "M", "g", "m"}
                     /\ Len(c) < 2 \/ c[2] \notin {"0", "1", "2", "3", "4", "5", "6", "7", "8", "9"}
                /\ Len(ErrorsAt(report, n)) <= 1

\* A validated text holds a lower-case g without number, which drew the
\* error, and a T without number, which did not.
C18_Witness ==
    /\ Reported
    /\ \E a, b \in DOMAIN Lines(editor) :
        /\ CommandText(Lines(editor)[a]) = <<"g">> /\ MissingNumberAt(a)
        /\ CommandText(Lines(editor)[b]) = <<"T">> /\ ErrorsAt(report, b) = <<>>

\* ------------------------------------------------------------------ claims on the files of a conversion

\* The files convert_to_gcode names for request r: the saved upload, the
\* drawing convert_dxf_to_svg writes and the instructions svg_to_gcode writes.
StageFiles(r) ==
    { f \in { <<"upload", frame[r].temp_input_path>>,
              <<"drawing", frame[r].temp_svg_path>>,
              <<"instructions", frame[r].temp_gcode_path>> } : f[2] # NoPath }

\* C19: the files of one convert_to_gcode request never alias: the saved
\* upload, the file the exchange->drawing stage writes and the file the
\* drawing->instructions stage writes are pairwise distinct, and no stage
\* writes the file it reads.
C19_StageFilesDistinct ==
    \A r \in Requests :
        frame[r].handler = "convert_to_gcode" =>
            /\ \A f, g \in StageFiles(r) : f[1] # g[1] => Resolve(f[2]) # Resolve(g[2])
            /\ \A i \in DOMAIN obs[r].calls :
                Resolve(obs[r].calls[i].input) # Resolve(obs[r].calls[i].output)

\* Whether the input checks of its handler turn request r down: no file, an
\* empty filename or a file type other than svg and dxf for convert_to_gcode,
\* nothing but whitespace as instruction text for create_3mf.
Rejected(r) ==
    \/ /\ frame[r].handler = "convert_to_gcode"
       /\ \/ ~frame[r].has_file
          \/ frame[r].upload_name = <<>>
          \/ frame[r].file_type \notin {"svg", "dxf"}
    \/ /\ frame[r].handler = "create_3mf"
       /\ \A i \in DOMAIN frame[r].gcode_text : frame[r].gcode_text[i] \in {" ", "\n"}

\* C20: a request turned down by the input checks returns a failure at once,
\* without creating a temporary directory, touching a file or invoking a
\* collaborator.
C20_RejectedTouchesNothing ==
    \A r \in Requests :
        Rejected(r) =>
            /\ Done(r)
            /\ result[r].status = 400 /\ ~result[r].success
            /\ frame[r].temp_dir = NoPath
            /\ ~obs[r].owns
            /\ obs[r].calls = <<>>
            /\ obs[r].stage_paths = {}
            /\ obs[r].fs_changes = {}
            /\ obs[r].attempted = {}

\* One request was turned down for its file type, the other for instruction
\* text of whitespace only.
C20_Witness ==
    \E r, o \in Requests :
        /\ Done(r) /\ frame[r].handler = "convert_to_gcode"
        /\ frame[r].has_file /\ frame[r].upload_name # <<>> /\ Rejected(r)
        /\ Done(o) /\ frame[o].handler = "create_3mf"
        /\ frame[o].gcode_text # <<>> /\ Rejected(o)

====
